---- MODULE Spec2Model ----
(***************************************************************************)
(* A model of flow's concurrency and connection engine (src/node.h): the  *)
(* node state machine, the producer and consumer execution loops, the pin *)
(* connection protocol and the pipe shared by two pins.                    *)
(*                                                                         *)
(* The graph modelled is one produce_n producer (src/tests/counted.h) with *)
(* the output pins A and B and one consumption_counter consumer with the   *)
(* input pins X and Y.  Each node's operator()() runs on its own thread;   *)
(* start/pause/stop/connect/disconnect are issued by a controlling thread. *)
(* Every block that holds a lwsync accessor is one atomic step.            *)
(*                                                                         *)
(* pipe.h is not part of the sources at hand: the pipe's queue operations  *)
(* (push, pop, length, cap_length) follow the specification's section 4.1; *)
(* which pin input() and output() yield is fixed by node.h:106 and :228.   *)
(***************************************************************************)
EXTENDS Integers, Sequences, FiniteSets, TLC

\* ------------------------------------------------------------------ bounds
\* produce_n's n: the number of produce() calls that emit packets.
MaxRounds == 3
\* The largest max_length / max_weight handed to connect.
MaxCap == 1
\* The number of calls the controlling thread makes (start, pause, stop,
\* connect, disconnect).
MaxCalls == 2

\* ------------------------------------------------------------ the program
start_requested == "start_requested"
started         == "started"
incoming        == "incoming"
pause_requested == "pause_requested"
paused          == "paused"
stop_requested  == "stop_requested"

state == {start_requested, started, incoming, pause_requested, paused, stop_requested}

Null == "null"

\* The pins of the two nodes, in index order (pin i is element i + 1).
d_outputs == <<"A", "B">>
d_inputs  == <<"X", "Y">>

outs == Len(d_outputs)
ins  == Len(d_inputs)

Outpins == {d_outputs[i] : i \in 1..outs}
Inpins  == {d_inputs[i] : i \in 1..ins}
Pins    == Outpins \cup Inpins

output(i) == d_outputs[i + 1]
input(i)  == d_inputs[i + 1]

Nodes == {"producer", "consumer"}

\* A live pipe is referenced by at least one pin, so this pool never runs dry.
PipeIds == 1..Cardinality(Pins)
Caps    == 0..MaxCap

\* One packet per output pin and per emitting produce() call.
Packets == 1..(MaxRounds * outs)

\* The default weight measure: one packet, one unit.
PacketWeight(k) == 1

RECURSIVE Weight(_)
Weight(q) == IF q = <<>> THEN 0 ELSE PacketWeight(Head(q)) + Weight(Tail(q))

Range(q) == {q[i] : i \in 1..Len(q)}

NoPipe ==
    [alive |-> FALSE, d_packets |-> <<>>, d_max_length |-> 0, d_max_weight |-> 0,
     d_input_p |-> Null, d_output_p |-> Null]

\* pipe::pipe(name, outpin* input, inpin* output, max_length, max_weight)
NewPipe(a, x, L, W) ==
    [alive |-> TRUE, d_packets |-> <<>>, d_max_length |-> L, d_max_weight |-> W,
     d_input_p |-> a, d_output_p |-> x]

VARIABLES
    d_state_m,       \* node -> state: each node's state monitor
    d_pipe_cr_sp,    \* pin -> <<>> or <<pipe id>>: each pin's shared pointer
    pipes,           \* pipe id -> the pipe
    crashed,         \* undefined behaviour ended the process
    calls,           \* calls made so far by the controlling thread
    p_pc, p_s,       \* the producer thread: position, the local s
    n,               \* produce_n::n
    p_i,             \* produce_n::produce's loop index
    made,            \* packets constructed so far (they are numbered in order)
    local_packet_p,  \* produce's local std::unique_ptr: <<>> or <<packet>>
    packet_p,        \* outpin::push's by-value parameter: <<>> or <<packet>>
    inpin_p,         \* outpin::push's local inpin_p
    c_pc, c_s,       \* the consumer thread: position, the local s
    c_i,             \* the consumer loop's pin index
    c_popped,        \* what pop() returned to ready: <<>> or <<packet>>
    call,            \* the current or last outpin::push call
    accepted,        \* pipe id -> packets the pipe accepted, in order
    popped,          \* pipe id -> packets popped from the pipe, in order
    displaced,       \* packets removed from a queue by cap_length
    destroyed,       \* packets whose owner destroyed them
    rejected,        \* packets a pipe rejected
    stop_latched,    \* node -> stop() was called on the running loop, no start()/pause() since
    stop_blocked,    \* node -> the wait (paused, started) stop() found the thread at,
                     \*         no start()/pause() since; Null otherwise
    request,         \* node -> the state the last start()/pause()/stop() made on the
                     \*         running loop asked for (a pause() counts when it
                     \*         finds the node running); Null when there is none
    missed,          \* input pins a push notified while the node was paused, and
                     \*         ready has not been called for since
    scan,            \* pin indexes ready was called for in the consumer's current scan
    paused_at,       \* made, when the producer last settled in paused (0 before)
    held             \* node -> the locks its thread holds where it now stands

threadVars == <<p_pc, p_s, n, p_i, made, local_packet_p, packet_p, inpin_p,
                c_pc, c_s, c_i, c_popped, call>>
prodVars == <<p_pc, p_s, n, p_i, made, local_packet_p, packet_p, inpin_p, call>>
consVars == <<c_pc, c_s, c_i, c_popped>>
pipeVars == <<d_pipe_cr_sp, pipes, accepted, popped, displaced, destroyed, rejected>>
stopVars == <<stop_latched, stop_blocked>>
histVars == <<request, missed, scan, paused_at, held>>

vars == <<d_state_m, d_pipe_cr_sp, pipes, crashed, calls, p_pc, p_s, n, p_i, made,
          local_packet_p, packet_p, inpin_p, c_pc, c_s, c_i, c_popped, call,
          accepted, popped, displaced, destroyed, rejected, stop_latched, stop_blocked,
          request, missed, scan, paused_at, held>>

\* pin, packet: the call's arguments; connected: the pin had a pipe; length,
\* max_length, max_weight: what the call found in the pipe; pushed: pipe::push
\* appended; captured: inpin_p was set; notified: calls of incoming(); found:
\* the state incoming() found; result: the value returned; left: what the
\* caller's pointer holds after the call.
NoCall == [pin |-> Null, packet |-> 0, connected |-> FALSE, pushed |-> FALSE,
           captured |-> FALSE, length |-> 0, max_length |-> 0, max_weight |-> 0,
           notified |-> 0, found |-> Null, returned |-> FALSE, result |-> FALSE,
           left |-> <<>>]

\* The nodes as constructed, their threads not yet running.
Constructed ==
    /\ d_state_m = [nd \in Nodes |-> paused]
    /\ crashed = FALSE
    /\ calls = 0
    /\ p_pc = "entry" /\ p_s = paused
    /\ n = MaxRounds
    /\ p_i = 0
    /\ made = 0
    /\ local_packet_p = <<>>
    /\ packet_p = <<>>
    /\ inpin_p = Null
    /\ c_pc = "entry" /\ c_s = paused
    /\ c_i = 0
    /\ c_popped = <<>>
    /\ call = NoCall
    /\ accepted = [id \in PipeIds |-> <<>>]
    /\ popped = [id \in PipeIds |-> <<>>]
    /\ displaced = {}
    /\ destroyed = {}
    /\ rejected = {}
    /\ stop_latched = [nd \in Nodes |-> FALSE]
    /\ stop_blocked = [nd \in Nodes |-> Null]
    /\ request = [nd \in Nodes |-> Null]
    /\ missed = {}
    /\ scan = <<>>
    /\ paused_at = 0
    /\ held = [nd \in Nodes |-> {}]

Init ==
    /\ Constructed
    /\ d_pipe_cr_sp = [p \in Pins |-> <<>>]
    /\ pipes = [id \in PipeIds |-> NoPipe]

\* The number of pin indexes both nodes have.
Wired == IF outs < ins THEN outs ELSE ins

\* The graph wired before its threads run: output(i) connected to input(i)
\* by an unlimited pipe, for every i both nodes have.
InitWired ==
    /\ Constructed
    /\ d_pipe_cr_sp = [p \in Pins |->
           IF \E i \in 0..(Wired - 1) : p \in {output(i), input(i)}
           THEN <<1 + CHOOSE i \in 0..(Wired - 1) : p \in {output(i), input(i)}>>
           ELSE <<>>]
    /\ pipes = [id \in PipeIds |->
           IF id <= Wired THEN NewPipe(output(id - 1), input(id - 1), 0, 0) ELSE NoPipe]

\* ------------------------------------------------------------------ pipe
\* pipe::push: appends when both caps still hold after the insertion
\* (0 = unlimited), rejects otherwise.
PipeAccepts(pipe, k) ==
    /\ pipe.d_max_length = 0 \/ Len(pipe.d_packets) + 1 <= pipe.d_max_length
    /\ pipe.d_max_weight = 0 \/ Weight(pipe.d_packets) + PacketWeight(k) <= pipe.d_max_weight

PipePush(pipe, k) ==
    IF PipeAccepts(pipe, k)
    THEN [pipe EXCEPT !.d_packets = Append(@, k)]
    ELSE pipe

\* pipe::pop: removes the front packet.
PipePop(pipe) == [pipe EXCEPT !.d_packets = Tail(@)]

\* pipe::cap_length: sets the length cap; packets over the cap are displaced,
\* from the front of the queue or from its back (the specification names no end).
PipeCapLength(pipe, len, front) ==
    LET q    == pipe.d_packets
        over == IF len # 0 /\ Len(q) > len THEN Len(q) - len ELSE 0
        kept == IF front THEN SubSeq(q, over + 1, Len(q)) ELSE SubSeq(q, 1, Len(q) - over)
    IN  [pipe EXCEPT !.d_max_length = len, !.d_packets = kept]

\* ------------------------------------------------------------------ pins
\* The pins whose shared pointer holds pipe id, under the pointers sp.
Holders(sp, id) == {p \in Pins : sp[p] = <<id>>}

\* A release that takes the pipe away as soon as one of its two pins lets go.
ReleasedByEither(sp, ps) == {id \in PipeIds : ps[id].alive /\ Cardinality(Holders(sp, id)) < 2}

\* The pipes the last shared pointer to which is gone.
Released(sp, ps) == {id \in PipeIds : ps[id].alive /\ Holders(sp, id) = {}}

\* std::shared_ptr: a pipe no pin references any more is destroyed, its
\* packets with it.
Sweep(sp, ps) == [id \in PipeIds |-> IF id \in Released(sp, ps) THEN NoPipe ELSE ps[id]]

Lost(sp, ps) == UNION {Range(ps[id].d_packets) : id \in Released(sp, ps)}

\* The node that owns an input pin: inpin::d_state_m_r.
NodeOf(x) == "consumer"

\* A connect that disconnects the pin recorded as the output of other's pipe.
ConnectStealOutput(sp, ps, a) ==
    IF sp[a] # <<>> /\ ps[sp[a][1]].d_output_p # Null
    THEN [sp EXCEPT ![ps[sp[a][1]].d_output_p] = <<>>]
    ELSE sp

\* pin::connect, lines 84-90: the pin recorded as the input of other's pipe
\* is disconnected.
ConnectSteal(sp, ps, a) ==
    IF sp[a] # <<>> /\ ps[sp[a][1]].d_input_p # Null
    THEN [sp EXCEPT ![ps[sp[a][1]].d_input_p] = <<>>]
    ELSE sp

\* That disconnect dropped the last reference to the pipe whose accessor
\* connect still holds: the pipe is destroyed while locked.
ConnectFreesLocked(sp, ps, a) ==
    /\ sp[a] # <<>>
    /\ Holders(ConnectSteal(sp, ps, a), sp[a][1]) = {}

\* A connect that writes the new cap without enforcing it on the queue.
ConnectCapsUnenforced(pipe, max_length, max_weight, front) ==
    LET p1 == IF max_length # 0 THEN [pipe EXCEPT !.d_max_length = max_length] ELSE pipe
    IN  IF max_weight # 0 THEN [p1 EXCEPT !.d_max_length = max_weight] ELSE p1

\* A connect that empties the queue of the pipe it reuses.
ConnectCapsFlushed(pipe, max_length, max_weight, front) ==
    LET p1 == IF max_length # 0 THEN PipeCapLength(pipe, max_length, front) ELSE pipe
        p2 == IF max_weight # 0 THEN PipeCapLength(p1, max_weight, front) ELSE p1
    IN  [p2 EXCEPT !.d_packets = <<>>]

\* pin::connect, lines 100-101: the caps applied to a reused pipe.
ConnectCaps(pipe, max_length, max_weight, front) ==
    LET p1 == IF max_length # 0 THEN PipeCapLength(pipe, max_length, front) ELSE pipe
    IN  IF max_weight # 0 THEN PipeCapLength(p1, max_weight, front) ELSE p1

\* pin::connect, lines 92-108, on the pointers left by lines 84-90.
ConnectPointers(sp, ps, x, a) ==
    IF sp[x] # <<>>
    THEN [sp EXCEPT ![a] = sp[x]]
    ELSE LET id == CHOOSE i \in PipeIds : ~ps[i].alive /\ \A j \in PipeIds : ~ps[j].alive => i <= j
         IN  [sp EXCEPT ![a] = <<id>>, ![x] = <<id>>]

ConnectPipes(sp, ps, x, a, max_length, max_weight, front) ==
    IF sp[x] # <<>>
    THEN [ps EXCEPT ![sp[x][1]] = ConnectCaps(@, max_length, max_weight, front)]
    ELSE [ps EXCEPT ![ConnectPointers(sp, ps, x, a)[x][1]] = NewPipe(a, x, max_length, max_weight)]

\* One more call by the controlling thread.
Called ==
    /\ ~crashed
    /\ calls' = calls + 1

\* The history of the pipes that exist under the pointers sp.
Kept(sp, ps, h) == [id \in PipeIds |-> IF id \in Released(sp, ps) THEN <<>> ELSE h[id]]

\* inpin::connect / outpin::connect / pin::connect: x is the input pin, a
\* the output pin.  When lines 84-90 destroy the pipe they hold locked the
\* behaviour is undefined: the build either runs on as if the pipe had been
\* unlocked first, or the process dies there (dies).
Connect(x, a, max_length, max_weight, front, dies) ==
    /\ Called
    /\ dies => ConnectFreesLocked(d_pipe_cr_sp, pipes, a)
    /\ LET sp1 == ConnectSteal(d_pipe_cr_sp, pipes, a)
           ps1 == Sweep(sp1, pipes)
           sp2 == ConnectPointers(sp1, ps1, x, a)
           ps2 == ConnectPipes(sp1, ps1, x, a, max_length, max_weight, front)
           made_new == sp1[x] = <<>>
           id  == sp2[x][1]
           gone == IF made_new THEN {} ELSE Range(pipes[id].d_packets) \ Range(ps2[id].d_packets)
       IN  IF dies
           THEN /\ crashed' = TRUE
                /\ UNCHANGED pipeVars
           ELSE /\ crashed' = FALSE
                /\ d_pipe_cr_sp' = sp2
                /\ pipes' = Sweep(sp2, ps2)
                /\ displaced' = displaced \cup gone
                /\ destroyed' = destroyed \cup gone \cup Lost(sp1, pipes) \cup Lost(sp2, ps2)
                /\ accepted' = Kept(sp2, ps2, Kept(sp1, pipes, accepted))
                /\ popped' = Kept(sp2, ps2, Kept(sp1, pipes, popped))
                /\ rejected' = rejected
    /\ UNCHANGED <<d_state_m, threadVars, stopVars, histVars>>

\* pin::disconnect
Disconnect(p) ==
    /\ Called
    /\ d_pipe_cr_sp[p] # <<>>
    /\ LET sp1 == [d_pipe_cr_sp EXCEPT ![p] = <<>>]
       IN  /\ d_pipe_cr_sp' = sp1
           /\ pipes' = Sweep(sp1, pipes)
           /\ destroyed' = destroyed \cup Lost(sp1, pipes)
           /\ accepted' = Kept(sp1, pipes, accepted)
           /\ popped' = Kept(sp1, pipes, popped)
    /\ UNCHANGED <<d_state_m, crashed, threadVars, stopVars, histVars, displaced, rejected>>

\* ------------------------------------------------------------------ node
\* A wait while paused that only start() ends.
WaitPausedForStart(state_r) == state_r = start_requested

\* The wake predicate of the wait made while s is paused (lines 335, 410).
WaitPaused(state_r) == state_r = start_requested \/ state_r = stop_requested

\* The wake predicate of the consumer's wait made while s is started (line 414).
WaitStarted(state_r) == state_r # started

\* The thread is at one of the two suspension points.
ProducerAtWait == p_pc = "top" /\ p_s = paused
ConsumerAtWait == c_pc = "top" /\ c_s \in {paused, started}
AtWait(nd) == IF nd = "producer" THEN ProducerAtWait ELSE ConsumerAtWait

\* The thread's local s, its position; the loop is under way.
Local(nd) == IF nd = "producer" THEN p_s ELSE c_s
Position(nd) == IF nd = "producer" THEN p_pc ELSE c_pc
Running(nd) == Position(nd) \notin {"entry", "done"}

\* What a call that writes s leaves on record: a request made of a loop that
\* is under way.
Requested(nd, s) == IF Running(nd) THEN s ELSE Null

\* The node is running: its state is started or incoming.
Active(nd) == d_state_m[nd] \in {started, incoming}

\* node::start
Start(nd) ==
    /\ Called
    /\ d_state_m' = [d_state_m EXCEPT ![nd] = start_requested]
    /\ stop_latched' = [stop_latched EXCEPT ![nd] = FALSE]
    /\ stop_blocked' = [stop_blocked EXCEPT ![nd] = Null]
    /\ request' = [request EXCEPT ![nd] = Requested(nd, start_requested)]
    /\ UNCHANGED <<crashed, threadVars, pipeVars, missed, scan, paused_at, held>>

\* node::pause
Pause(nd) ==
    /\ Called
    /\ d_state_m' = [d_state_m EXCEPT ![nd] = pause_requested]
    /\ stop_latched' = [stop_latched EXCEPT ![nd] = FALSE]
    /\ stop_blocked' = [stop_blocked EXCEPT ![nd] = Null]
    /\ request' = [request EXCEPT ![nd] =
                       IF Active(nd) THEN Requested(nd, pause_requested) ELSE Null]
    /\ UNCHANGED <<crashed, threadVars, pipeVars, missed, scan, paused_at, held>>

\* node::stop
Stop(nd) ==
    /\ Called
    /\ d_state_m' = [d_state_m EXCEPT ![nd] = stop_requested]
    /\ stop_latched' = [stop_latched EXCEPT ![nd] = stop_latched[nd] \/ Running(nd)]
    /\ stop_blocked' = [stop_blocked EXCEPT ![nd] =
                            IF stop_blocked[nd] = Null /\ AtWait(nd) THEN Local(nd) ELSE @]
    /\ request' = [request EXCEPT ![nd] = Requested(nd, stop_requested)]
    /\ UNCHANGED <<crashed, threadVars, pipeVars, missed, scan, paused_at, held>>

\* -------------------------------------------------------------- producer
\* Code that touches only the thread's own locals runs on within the step
\* that made the last access to a monitor or a pipe.

\* The lock of a pipe's critical_resource and the lock of a node's state monitor.
PipeLock(id) == <<"pipe", id>>
StateLock(nd) == <<"state", nd>>
PipeLocks == {PipeLock(id) : id \in PipeIds}
StateLocks == {StateLock(nd) : nd \in Nodes}

\* Lines 328-349 and 403-432: every accessor of d_state_m is a temporary of
\* its own statement, so the loop holds none of its locks when the statement
\* ends and produce() or ready() is called.
LoopKeeps(lock) == {}

\* What the loop's thread holds after a step that leaves it at pc: the locks
\* kept into a callback that starts at one of the positions inside, none at
\* the loop's own positions.
LoopHeld(pc, inside, lock) == IF pc \in inside THEN LoopKeeps(lock) ELSE {}

\* What the thread holds after a call made inside a callback returned: the
\* call's own accessors are gone; back in the loop (pc outside the callback)
\* the callback's scope has closed too.
Returned(h, pc, inside) == IF pc \in inside THEN h \ PipeLocks ELSE {}

\* The lock a call on pin p takes to reach the pin's pipe: none without a pipe
\* (lines 157, 167, 221), the pipe's otherwise (lines 159, 169, 225).
PinTakes(p) == IF d_pipe_cr_sp[p] = <<>> THEN {} ELSE {PipeLock(d_pipe_cr_sp[p][1])}

\* A loop that starts produce_n over when it resumes from a pause.
ProducerOnRestarting(s) ==
    IF s = stop_requested
    THEN /\ p_pc' = "done"
         /\ UNCHANGED <<n, p_i, made, local_packet_p>>
    ELSE IF s = started /\ (n # 0 \/ p_s = start_requested)
    THEN /\ n' = IF p_s = start_requested THEN MaxRounds - 1 ELSE n - 1
         /\ p_i' = 0
         /\ made' = made + 1
         /\ local_packet_p' = <<made + 1>>
         /\ p_pc' = "push"
    ELSE /\ p_pc' = "top"
         /\ UNCHANGED <<n, p_i, made, local_packet_p>>

\* A loop that calls produce() unless s is stop_requested.
ProducerOnUnlessStopped(s) ==
    IF s = stop_requested
    THEN /\ p_pc' = "done"
         /\ UNCHANGED <<n, p_i, made, local_packet_p>>
    ELSE IF s \in {started, paused} /\ n # 0
    THEN /\ n' = n - 1
         /\ p_i' = 0
         /\ made' = made + 1
         /\ local_packet_p' = <<made + 1>>
         /\ p_pc' = "push"
    ELSE /\ p_pc' = "top"
         /\ UNCHANGED <<n, p_i, made, local_packet_p>>

\* produce_n::produce, lines 24-30, reached from line 352 when s is started:
\* while n is not 0 it makes the packet for output 0.  Line 330 ends the loop
\* when s is stop_requested.
ProducerOn(s) ==
    IF s = stop_requested
    THEN /\ p_pc' = "done"
         /\ UNCHANGED <<n, p_i, made, local_packet_p>>
    ELSE IF s = started /\ n # 0
    THEN /\ n' = n - 1
         /\ p_i' = 0
         /\ made' = made + 1
         /\ local_packet_p' = <<made + 1>>
         /\ p_pc' = "push"
    ELSE /\ p_pc' = "top"
         /\ UNCHANGED <<n, p_i, made, local_packet_p>>

\* producer::operator()(), line 328
ProducerEntry ==
    /\ ~crashed
    /\ p_pc = "entry"
    /\ d_state_m' = [d_state_m EXCEPT !["producer"] = started]
    /\ p_s' = started
    /\ p_pc' = "top"
    /\ UNCHANGED <<crashed, calls, n, p_i, made, local_packet_p, packet_p, inpin_p, call,
                   consVars, pipeVars, stopVars, histVars>>

\* lines 342-349: the states the producer's loop settles.
ProducerSettles(s) == s = pause_requested \/ s = start_requested

\* lines 333-340: the wait while paused, or the plain read.
ProducerRead ==
    /\ ~crashed
    /\ p_pc = "top"
    /\ p_s = paused => WaitPaused(d_state_m["producer"])
    /\ p_s' = d_state_m["producer"]
    /\ IF ProducerSettles(d_state_m["producer"])
       THEN /\ p_pc' = "settle"
            /\ UNCHANGED <<n, p_i, made, local_packet_p>>
       ELSE ProducerOn(d_state_m["producer"])
    /\ held' = [held EXCEPT !["producer"] =
                    LoopHeld(p_pc', {"push", "notify"}, StateLock("producer"))]
    /\ UNCHANGED <<d_state_m, crashed, calls, packet_p, inpin_p, call, consVars, pipeVars,
                   stopVars, request, missed, scan, paused_at>>

\* lines 342-349: what the producer's loop writes for the s it read.
ProducerSettled(s) ==
    IF s = pause_requested THEN paused
    ELSE IF s = start_requested THEN started
    ELSE s

ProducerSettle ==
    /\ ~crashed
    /\ p_pc = "settle"
    /\ p_s' = ProducerSettled(p_s)
    /\ d_state_m' = [d_state_m EXCEPT !["producer"] = ProducerSettled(p_s)]
    /\ ProducerOn(ProducerSettled(p_s))
    /\ paused_at' = IF ProducerSettled(p_s) = paused THEN made ELSE paused_at
    /\ held' = [held EXCEPT !["producer"] =
                    LoopHeld(p_pc', {"push", "notify"}, StateLock("producer"))]
    /\ UNCHANGED <<crashed, calls, packet_p, inpin_p, call, consVars, pipeVars, stopVars,
                   request, missed, scan>>

\* produce_n::produce, lines 28-33, after a push returned: the next output's
\* packet, or the return to the loop.
ProduceNext ==
    IF p_i + 1 # outs
    THEN /\ p_i' = p_i + 1
         /\ made' = made + 1
         /\ local_packet_p' = <<made + 1>>
         /\ p_pc' = "push"
    ELSE /\ p_i' = 0
         /\ made' = made
         /\ local_packet_p' = <<>>
         /\ p_pc' = "top"

\* A push that captures the pin whatever pipe::push answered.
OutpinPushCapturedAlways(pushed, pipe) == pipe.d_output_p

\* A push that captures the pin when pipe::push refused.
OutpinPushCapturedInverted(pushed, pipe) == IF pushed THEN Null ELSE pipe.d_output_p

\* outpin::push, lines 226-229: the pin to notify, given pipe::push's result.
OutpinPushCaptured(pushed, pipe) == IF pushed THEN pipe.d_output_p ELSE Null

\* outpin::push, line 237: the value returned.
OutpinPushResult(inpin) == inpin = Null

\* outpin::push, line 237: the by-value parameter goes out of scope and
\* destroys the packet it still holds; the caller's pointer stays moved-from.
OutpinPushLeaves(param) == <<>>

\* A push whose accessor of the pipe lives until push returns.
OutpinPushKeepsLocked(lock) == {lock}

\* outpin::push, lines 224-230: the block that holds the pipe's accessor
\* closes at line 230, before the captured pin is looked at.
OutpinPushKeeps(lock) == {}

\* outpin::push, lines 219-230, called with the packet moved out of
\* produce's local.  A pin without a pipe returns false at once.  Otherwise
\* the block that holds the pipe's accessor runs; when it captured no pin,
\* line 237 follows without another shared access.
OutpinPush ==
    /\ ~crashed
    /\ p_pc = "push"
    /\ LET a == output(p_i)
           k == local_packet_p[1]
       IN  IF d_pipe_cr_sp[a] = <<>>
           THEN /\ call' = [NoCall EXCEPT !.pin = a, !.packet = k, !.returned = TRUE,
                                          !.result = FALSE,
                                          !.left = OutpinPushLeaves(<<k>>)]
                /\ destroyed' = destroyed \cup (Range(<<k>>) \ Range(OutpinPushLeaves(<<k>>)))
                /\ ProduceNext
                /\ held' = [held EXCEPT !["producer"] =
                                Returned(@, p_pc', {"push", "notify"})]
                /\ UNCHANGED <<packet_p, inpin_p, pipes, accepted, rejected>>
           ELSE LET id     == d_pipe_cr_sp[a][1]
                    pushed == PipeAccepts(pipes[id], k)
                    cap    == OutpinPushCaptured(pushed, pipes[id])
                    param  == IF pushed THEN <<>> ELSE <<k>>
                    now    == [NoCall EXCEPT !.pin = a, !.packet = k, !.connected = TRUE,
                                   !.pushed = pushed, !.captured = cap # Null,
                                   !.length = Len(pipes[id].d_packets),
                                   !.max_length = pipes[id].d_max_length,
                                   !.max_weight = pipes[id].d_max_weight]
                IN  /\ pipes' = [pipes EXCEPT ![id] = PipePush(@, k)]
                    /\ accepted' = IF pushed THEN [accepted EXCEPT ![id] = Append(@, k)]
                                   ELSE accepted
                    /\ rejected' = IF pushed THEN rejected ELSE rejected \cup {k}
                    /\ IF cap # Null
                       THEN /\ packet_p' = param
                            /\ inpin_p' = cap
                            /\ call' = now
                            /\ local_packet_p' = <<>>
                            /\ p_pc' = "notify"
                            /\ held' = [held EXCEPT !["producer"] =
                                            @ \cup OutpinPushKeeps(PipeLock(id))]
                            /\ UNCHANGED <<destroyed, p_i, made>>
                       ELSE /\ packet_p' = <<>>
                            /\ inpin_p' = Null
                            /\ call' = [now EXCEPT !.returned = TRUE,
                                                   !.result = OutpinPushResult(cap),
                                                   !.left = OutpinPushLeaves(param)]
                            /\ destroyed' = destroyed \cup (Range(param) \ Range(OutpinPushLeaves(param)))
                            /\ ProduceNext
                            /\ held' = [held EXCEPT !["producer"] =
                                            Returned(@, p_pc', {"push", "notify"})]
    /\ UNCHANGED <<d_state_m, d_pipe_cr_sp, crashed, calls, p_s, n, consVars, popped, displaced,
                   stopVars, request, missed, scan, paused_at>>

\* An incoming() that writes incoming whatever it finds.
InpinIncomingAlways(state_r) == incoming

\* inpin::incoming: the state it leaves, given the state it finds.
InpinIncoming(state_r) == IF state_r = started THEN incoming ELSE state_r

\* outpin::push, lines 232-237: the captured pin is notified, push returns.
OutpinPushNotify ==
    /\ ~crashed
    /\ p_pc = "notify"
    /\ d_state_m' = [d_state_m EXCEPT ![NodeOf(inpin_p)] = InpinIncoming(@)]
    /\ call' = [call EXCEPT !.notified = @ + 1,
                            !.found = d_state_m[NodeOf(inpin_p)],
                            !.returned = TRUE,
                            !.result = OutpinPushResult(inpin_p),
                            !.left = OutpinPushLeaves(packet_p)]
    /\ destroyed' = destroyed \cup (Range(packet_p) \ Range(OutpinPushLeaves(packet_p)))
    /\ packet_p' = <<>>
    /\ inpin_p' = Null
    /\ ProduceNext
    /\ missed' = IF d_state_m[NodeOf(inpin_p)] = paused THEN missed \cup {inpin_p} ELSE missed
    /\ held' = [held EXCEPT !["producer"] = Returned(@, p_pc', {"push", "notify"})]
    /\ UNCHANGED <<crashed, calls, p_s, n, consVars, d_pipe_cr_sp, pipes, accepted, popped,
                   displaced, rejected, stopVars, request, scan, paused_at>>

\* -------------------------------------------------------------- consumer
\* consumer::operator()(), line 403
ConsumerEntry ==
    /\ ~crashed
    /\ c_pc = "entry"
    /\ d_state_m' = [d_state_m EXCEPT !["consumer"] = started]
    /\ c_s' = started
    /\ c_pc' = "top"
    /\ UNCHANGED <<crashed, calls, c_i, c_popped, prodVars, pipeVars, stopVars, histVars>>

\* lines 421-432: the states the consumer's loop settles.
ConsumerSettles(s) == s = pause_requested \/ s = start_requested \/ s = incoming

\* lines 408-419: the wait while paused, the idle wait while started, or
\* the plain read.  Line 405 ends the loop when s is stop_requested.
ConsumerRead ==
    /\ ~crashed
    /\ c_pc = "top"
    /\ c_s = paused => WaitPaused(d_state_m["consumer"])
    /\ c_s = started => WaitStarted(d_state_m["consumer"])
    /\ c_s' = d_state_m["consumer"]
    /\ c_pc' = IF ConsumerSettles(d_state_m["consumer"]) THEN "settle"
               ELSE IF d_state_m["consumer"] = stop_requested THEN "done"
               ELSE "top"
    /\ UNCHANGED <<d_state_m, crashed, calls, c_i, c_popped, prodVars, pipeVars, stopVars, histVars>>

\* lines 421-432: what the consumer's loop writes for the s it read ...
ConsumerSettled(s) ==
    IF s = pause_requested THEN paused
    ELSE IF s = start_requested THEN started
    ELSE IF s = incoming THEN started
    ELSE s

\* ... and what it leaves in s (incoming stays in s).
ConsumerLocal(s) == IF s = incoming THEN incoming ELSE ConsumerSettled(s)

\* lines 421-437: the settling write, then the scan starts if s is incoming.
ConsumerSettle ==
    /\ ~crashed
    /\ c_pc = "settle"
    /\ c_s' = ConsumerLocal(c_s)
    /\ d_state_m' = [d_state_m EXCEPT !["consumer"] = ConsumerSettled(c_s)]
    /\ c_i' = 0
    /\ c_pc' = IF c_s = incoming /\ ins # 0 THEN "peek" ELSE "top"
    /\ held' = [held EXCEPT !["consumer"] =
                    LoopHeld(c_pc', {"peek", "ready", "readied"}, StateLock("consumer"))]
    /\ UNCHANGED <<crashed, calls, c_popped, prodVars, pipeVars, stopVars,
                   request, missed, scan, paused_at>>

\* A peek that answers true whatever the pipe holds.
InpinPeekAlways(x) == TRUE

\* A peek that takes a pin without a pipe to hold a packet.
InpinPeekUnconnected(x) ==
    IF d_pipe_cr_sp[x] = <<>> THEN TRUE
    ELSE Len(pipes[d_pipe_cr_sp[x][1]].d_packets) # 0

\* inpin::peek
InpinPeek(x) ==
    IF d_pipe_cr_sp[x] = <<>> THEN FALSE
    ELSE Len(pipes[d_pipe_cr_sp[x][1]].d_packets) # 0

\* lines 437-443: pin c_i is peeked; ready(c_i) is called when it holds a packet.
ConsumerPeek ==
    /\ ~crashed
    /\ c_pc = "peek"
    /\ IF InpinPeek(input(c_i))
       THEN /\ c_pc' = "ready"
            /\ c_i' = c_i
            /\ scan' = Append(scan, c_i)
            /\ missed' = missed \ {input(c_i)}
       ELSE /\ c_i' = IF c_i + 1 # ins THEN c_i + 1 ELSE 0
            /\ c_pc' = IF c_i + 1 # ins THEN "peek" ELSE "top"
            /\ scan' = IF c_i + 1 # ins THEN scan ELSE <<>>
            /\ missed' = missed
    /\ held' = [held EXCEPT !["consumer"] =
                    Returned(@, c_pc', {"peek", "ready", "readied"})]
    /\ UNCHANGED <<d_state_m, crashed, calls, c_s, c_popped, prodVars, pipeVars, stopVars,
                   request, paused_at>>

\* inpin::pop: whether it yields a packet.
InpinPops(x) ==
    /\ d_pipe_cr_sp[x] # <<>>
    /\ Len(pipes[d_pipe_cr_sp[x][1]].d_packets) # 0

\* A pop that takes the queue's back out while it returns the front.
InpinPopLeavesBack(pipe) ==
    [pipe EXCEPT !.d_packets = SubSeq(@, 1, Len(@) - 1)]

\* A pop that returns the front and leaves it queued.
InpinPopLeavesAll(pipe) == pipe

\* inpin::pop: the pipe it leaves.
InpinPopLeaves(pipe) == PipePop(pipe)

\* The pins a ready(i) callback pops from: consumption_counter::ready pops
\* input(0) whatever i is; a consumer written for its pin pops input(i).
ReadyPins(i) == {input(0), input(i)}

\* ready(c_i), inpin::pop inside it.
ConsumerReady(x) ==
    /\ ~crashed
    /\ c_pc = "ready"
    /\ x \in ReadyPins(c_i)
    /\ IF InpinPops(x)
       THEN LET id == d_pipe_cr_sp[x][1]
            IN  /\ c_popped' = <<Head(pipes[id].d_packets)>>
                /\ pipes' = [pipes EXCEPT ![id] = InpinPopLeaves(@)]
                /\ popped' = [popped EXCEPT ![id] = Append(@, Head(pipes[id].d_packets))]
       ELSE /\ c_popped' = <<>>
            /\ UNCHANGED <<pipes, popped>>
    /\ c_pc' = "readied"
    /\ UNCHANGED <<d_state_m, d_pipe_cr_sp, crashed, calls, c_s, c_i, prodVars, accepted,
                   displaced, destroyed, rejected, stopVars, histVars>>

\* ready returns: the popped packet's unique_ptr is destroyed; the scan goes on.
ConsumerReadyReturn ==
    /\ ~crashed
    /\ c_pc = "readied"
    /\ destroyed' = destroyed \cup Range(c_popped)
    /\ c_popped' = <<>>
    /\ c_i' = IF c_i + 1 # ins THEN c_i + 1 ELSE 0
    /\ c_pc' = IF c_i + 1 # ins THEN "peek" ELSE "top"
    /\ scan' = IF c_i + 1 # ins THEN scan ELSE <<>>
    /\ held' = [held EXCEPT !["consumer"] =
                    Returned(@, c_pc', {"peek", "ready", "readied"})]
    /\ UNCHANGED <<d_state_m, crashed, calls, c_s, prodVars, d_pipe_cr_sp, pipes, accepted,
                   popped, displaced, rejected, stopVars, request, missed, paused_at>>

\* ---------------------------------------------------------- specifications
ProducerStep ==
    \/ ProducerEntry
    \/ ProducerRead
    \/ ProducerSettle
    \/ OutpinPush
    \/ OutpinPushNotify

ConsumerStep ==
    \/ ConsumerEntry
    \/ ConsumerRead
    \/ ConsumerSettle
    \/ ConsumerPeek
    \/ \E x \in Inpins : ConsumerReady(x)
    \/ ConsumerReadyReturn

\* front matters only when cap_length displaces a packet.
Fronts(x, max_length, max_weight) ==
    IF /\ d_pipe_cr_sp[x] # <<>>
       /\ \E len \in {max_length, max_weight} :
              len # 0 /\ Len(pipes[d_pipe_cr_sp[x][1]].d_packets) > len
    THEN BOOLEAN
    ELSE {TRUE}

\* dies matters only when the behaviour is undefined.
Dies(a) == IF ConnectFreesLocked(d_pipe_cr_sp, pipes, a) THEN BOOLEAN ELSE {FALSE}

\* The connect calls on the input pins I and the output pins O, with
\* max_length drawn from Ls and max_weight from Ws.
Connects(I, O, Ls, Ws) ==
    \E x \in I, a \in O, L \in Ls, W \in Ws :
        \E front \in Fronts(x, L, W), dies \in Dies(a) :
            Connect(x, a, L, W, front, dies)

Disconnects(P) == \E p \in P : Disconnect(p)

Control ==
    \/ \E nd \in Nodes : Start(nd)
    \/ \E nd \in Nodes : Pause(nd)
    \/ \E nd \in Nodes : Stop(nd)

\* The two threads at work on the pipe between A and X, which the
\* controlling thread connects, reconnects and disconnects meanwhile, each
\* cap unlimited or MaxCap; it may also call start() on the producer.  B and
\* Y stay without a pipe.
NextPipe ==
    \/ ProducerStep
    \/ ConsumerStep
    \/ calls < MaxCalls /\ Connects({"X"}, {"A"}, {0, MaxCap}, {0, MaxCap})
    \/ calls < MaxCalls /\ Disconnects({"X", "A"})
    \/ calls < MaxCalls /\ Start("producer")

SpecPipe == Init /\ [][NextPipe]_vars

\* The two threads while the controlling thread moves output A between the
\* inputs X and Y, with unlimited pipes; it may also call start() on the
\* producer.
NextSteal ==
    \/ ProducerStep
    \/ ConsumerStep
    \/ calls < MaxCalls /\ Connects(Inpins, {"A"}, {0}, {0})
    \/ calls < MaxCalls /\ Disconnects(Inpins \cup {"A"})
    \/ calls < MaxCalls /\ Start("producer")

SpecSteal == Init /\ [][NextSteal]_vars

\* The two threads under start(), pause() and stop(), with A connected to X
\* at some point.
NextStop ==
    \/ ProducerStep
    \/ ConsumerStep
    \/ calls < MaxCalls /\ Control
    \/ calls < MaxCalls /\ Connects({"X"}, {"A"}, {0}, {0})

SpecStop == Init /\ [][NextStop]_vars

\* Each node's thread keeps running while it has a step to take; the
\* controlling thread is under no obligation to call anything.
FairStop == SpecStop /\ WF_vars(ProducerStep) /\ WF_vars(ConsumerStep)

\* The two threads of the wired graph under start() and pause().
NextRun ==
    \/ ProducerStep
    \/ ConsumerStep
    \/ calls < MaxCalls /\ \E nd \in Nodes : Start(nd) \/ Pause(nd)

SpecRun == InitWired /\ [][NextRun]_vars

FairRun == SpecRun /\ WF_vars(ProducerStep) /\ WF_vars(ConsumerStep)

\* A consumer whose ready(i) pops from input(i).
ConsumerStepOwn ==
    \/ ConsumerEntry
    \/ ConsumerRead
    \/ ConsumerSettle
    \/ ConsumerPeek
    \/ ConsumerReady(input(c_i))
    \/ ConsumerReadyReturn

\* Output i connected to input i, the producer feeding a consumer whose
\* ready(i) pops from input(i) and which the controlling thread leaves
\* alone: it calls start() and pause() on the producer only.
NextFeed ==
    \/ ProducerStep
    \/ ConsumerStepOwn
    \/ calls < MaxCalls /\ (Start("producer") \/ Pause("producer"))

SpecFeed == InitWired /\ [][NextFeed]_vars

FairFeed == SpecFeed /\ WF_vars(ProducerStep) /\ WF_vars(ConsumerStepOwn)

\* The two threads while the controlling thread connects either output to
\* the input X, with unlimited pipes, and disconnects; it may also call
\* start() on the producer.
NextWire ==
    \/ ProducerStep
    \/ ConsumerStep
    \/ calls < MaxCalls /\ Connects({"X"}, Outpins, {0}, {0})
    \/ calls < MaxCalls /\ Disconnects({"X"} \cup Outpins)
    \/ calls < MaxCalls /\ Start("producer")

SpecWire == Init /\ [][NextWire]_vars

\* Everything at once.
Next ==
    \/ ProducerStep
    \/ ConsumerStep
    \/ calls < MaxCalls /\ Control
    \/ calls < MaxCalls /\ Connects(Inpins, Outpins, Caps, Caps)
    \/ calls < MaxCalls /\ Disconnects(Pins)

Spec == Init /\ [][Next]_vars

\* ------------------------------------------------------------------ claims
NoDup(q) == \A i, j \in 1..Len(q) : i # j => q[i] # q[j]

\* q without the packets cap_length displaced.
Undisplaced(q) == SelectSeq(q, LAMBDA k : k \notin displaced)

\* The queues of the pipes 1..id, one after the other.
RECURSIVE Queued(_)
Queued(id) == IF id = 0 THEN <<>> ELSE Queued(id - 1) \o pipes[id].d_packets

\* Every packet some owner holds: the producer's local, push's parameter,
\* the packet ready holds, the queues.
Held == local_packet_p \o packet_p \o c_popped \o Queued(Cardinality(PipeIds))

Done(nd) == Position(nd) = "done"

\* C1: once stop() has been called on a node whose loop is under way, and
\* no start() or pause() follows, the loop returns.
C1_StopIsObserved ==
    \A nd \in Nodes : stop_latched[nd] ~> (Done(nd) \/ ~stop_latched[nd] \/ crashed)

\* C2: once stop() has been called on a node whose thread is at the wait
\* made while paused or at the consumer's idle wait, and no start() or
\* pause() follows, the loop returns: no packet has to arrive.
C2_StopWakesBlocked ==
    \A nd \in Nodes :
        (stop_blocked[nd] # Null) ~> (Done(nd) \/ stop_blocked[nd] = Null \/ crashed)

\* The consumer was stopped in the wait made while paused, and has returned.
C2_Witness == stop_blocked["consumer"] = paused /\ c_pc = "done"

\* C3: push returns true exactly when the pipe accepted the packet.
C3_PushReturnsAccepted == call.returned => (call.result <=> call.pushed)

\* C4: a push calls incoming() once if the pipe accepted the packet and
\* not at all otherwise; the call finds the consumer started only to leave
\* it incoming.
C4_NotifiedOncePerAccepted ==
    [][ /\ call'.returned => call'.notified = (IF call'.pushed THEN 1 ELSE 0)
        /\ ~call'.returned => call'.notified = 0
        /\ (call'.notified = 1 /\ call.notified = 0 /\ d_state_m["consumer"] = started)
               => d_state_m'["consumer"] = incoming ]_vars

\* An accepted push has notified the started consumer, which is now incoming.
C4_Witness ==
    /\ call.returned /\ call.pushed /\ call.notified = 1
    /\ call.found = started
    /\ d_state_m["consumer"] = incoming

\* C5: after a push the pipe rejected, the caller still owns the packet,
\* which is neither queued nor destroyed.
C5_RejectedPacketKept ==
    (call.returned /\ call.connected /\ ~call.pushed)
        => /\ call.left = <<call.packet>>
           /\ call.packet \notin destroyed
           /\ call.packet \notin Range(Queued(Cardinality(PipeIds)))

C7_AcceptedBelowCap ==
    (call.connected /\ call.max_length > 0 /\ call.max_weight = 0)
        => /\ call.pushed <=> call.length < call.max_length
           /\ call.captured <=> call.pushed

\* A pipe of max_length 1 accepted a packet, rejected the next one, was
\* popped, and has accepted the one after.
C7_Witness ==
    \E id \in PipeIds :
        /\ pipes[id].alive /\ pipes[id].d_max_length = 1 /\ pipes[id].d_max_weight = 0
        /\ call.returned /\ call.pushed /\ call.length = 0 /\ call.max_length = 1
        /\ Len(accepted[id]) = 2
        /\ accepted[id][2] = call.packet
        /\ popped[id] = <<accepted[id][1]>>
        /\ \E k \in rejected : accepted[id][1] < k /\ k < accepted[id][2]

\* C8: what has been popped from a pipe, followed by what it queues, is what
\* it accepted, in the order it accepted it (less the packets a new cap
\* displaced); no packet is popped twice.
C8_Fifo ==
    \A id \in PipeIds :
        pipes[id].alive
            => /\ popped[id] \o pipes[id].d_packets = Undisplaced(accepted[id])
               /\ NoDup(popped[id])
               /\ NoDup(accepted[id])

\* Two packets have been popped from a pipe that queues a third.
C8_Witness ==
    \E id \in PipeIds :
        pipes[id].alive /\ Len(popped[id]) >= 2 /\ pipes[id].d_packets # <<>>

\* C9: no packet has two owners, and no owned packet is a destroyed one.
C9_OneOwner == NoDup(Held) /\ Range(Held) \cap destroyed = {}

\* ready holds a packet while another is queued and the producer holds a third.
C9_Witness ==
    /\ c_popped # <<>>
    /\ local_packet_p # <<>>
    /\ \E id \in PipeIds : pipes[id].d_packets # <<>>

\* C10: when A, connected to X, is connected to Y, A ends on the pipe Y
\* holds, which notifies Y; X keeps its pipe, now without A, with the packets
\* it queued.
C10_Steal ==
    [][ ( /\ d_pipe_cr_sp["A"] # <<>>
          /\ d_pipe_cr_sp["A"] = d_pipe_cr_sp["X"]
          /\ d_pipe_cr_sp'["A"] # <<>>
          /\ d_pipe_cr_sp'["A"] # d_pipe_cr_sp["A"] )
            => /\ d_pipe_cr_sp'["A"] = d_pipe_cr_sp'["Y"]
               /\ pipes'[d_pipe_cr_sp'["A"][1]].d_output_p = "Y"
               /\ d_pipe_cr_sp'["X"] = d_pipe_cr_sp["X"]
               /\ pipes'[d_pipe_cr_sp["X"][1]] = pipes[d_pipe_cr_sp["X"][1]] ]_vars

\* A has left X for Y: X's pipe, made for A, still queues a packet, and Y's
\* pipe has accepted a later one.
C10_Witness ==
    /\ d_pipe_cr_sp["X"] # <<>> /\ d_pipe_cr_sp["Y"] # <<>>
    /\ d_pipe_cr_sp["A"] = d_pipe_cr_sp["Y"]
    /\ d_pipe_cr_sp["X"] # d_pipe_cr_sp["Y"]
    /\ pipes[d_pipe_cr_sp["X"][1]].d_input_p = "A"
    /\ pipes[d_pipe_cr_sp["X"][1]].d_packets # <<>>
    /\ accepted[d_pipe_cr_sp["Y"][1]] # <<>>

\* C11: an output pin that holds a pipe is the producing endpoint that pipe
\* records, and no pipe is held by two output pins.
C11_OutpinIsEndpoint ==
    \A a \in Outpins :
        d_pipe_cr_sp[a] # <<>>
            => /\ pipes[d_pipe_cr_sp[a][1]].d_input_p = a
               /\ \A b \in Outpins \ {a} : d_pipe_cr_sp[b] # d_pipe_cr_sp[a]

\* C12: disconnect() clears the pointer of its pin and nothing else: the
\* other pins keep theirs, and every pipe still held keeps its queue, its
\* caps and its endpoints.
C12_DisconnectFrame ==
    [][ \A p \in Pins :
            Disconnect(p)
                => /\ d_pipe_cr_sp'[p] = <<>>
                   /\ \A q \in Pins \ {p} : d_pipe_cr_sp'[q] = d_pipe_cr_sp[q]
                   /\ \A id \in PipeIds :
                          Holders(d_pipe_cr_sp', id) # {} => pipes'[id] = pipes[id]
                   /\ d_state_m' = d_state_m ]_vars

\* A has disconnected from the pipe made for A and X; X still holds it, with
\* a packet queued.
C12_Witness ==
    /\ d_pipe_cr_sp["A"] = <<>>
    /\ d_pipe_cr_sp["X"] # <<>>
    /\ pipes[d_pipe_cr_sp["X"][1]].alive
    /\ pipes[d_pipe_cr_sp["X"][1]].d_input_p = "A"
    /\ pipes[d_pipe_cr_sp["X"][1]].d_packets # <<>>

\* C13: a connect on an input pin that holds a pipe leaves that pipe with
\* the max_length and the max_weight it was given, a cap given as 0 leaving
\* the pipe's cap as it was.
C13_ReuseAppliesCaps ==
    [][ \A x \in Inpins, a \in Outpins, L \in Caps, W \in Caps, front \in BOOLEAN :
            (d_pipe_cr_sp[x] # <<>> /\ Connect(x, a, L, W, front, FALSE))
                => LET id == d_pipe_cr_sp[x][1]
                   IN  /\ pipes'[id].d_max_length =
                              IF L # 0 THEN L ELSE pipes[id].d_max_length
                       /\ pipes'[id].d_max_weight =
                              IF W # 0 THEN W ELSE pipes[id].d_max_weight ]_vars

\* The packets an uninterrupted run has made when n rounds are left and
\* produce is at output p_i (inside), or between two calls of produce.
Emitted(left, inside, i) ==
    IF inside THEN outs * (MaxRounds - left - 1) + i + 1 ELSE outs * (MaxRounds - left)

\* C14: whatever start() and pause() calls are made, the producer's progress
\* is that of an uninterrupted run: the packets made so far are those of the
\* rounds done, and each push carries the packet after the one before, to
\* the output whose turn it is.
C14_PauseKeepsProgress ==
    [][ /\ made' = Emitted(n', p_pc' \in {"push", "notify"}, p_i')
        /\ p_pc' = "push" => local_packet_p' = <<made'>>
        /\ call'.packet # call.packet
               => /\ call'.packet = call.packet + 1
                  /\ call'.pin = output((call'.packet - 1) % outs) ]_vars

\* The producer settled in paused after it had made packets, was resumed,
\* and has made all the others.
C14_Witness ==
    /\ paused_at > 0
    /\ made > paused_at
    /\ n = 0 /\ p_pc = "top"
    /\ call.returned /\ call.packet = outs * MaxRounds

\* The consumer has settled in started after a start(), with a packet in
\* the pipe of x that was pushed while the node was paused and that ready
\* has not been called for.
Resumed(x) ==
    /\ x \in missed
    /\ InpinPeek(x)
    /\ request["consumer"] = start_requested
    /\ d_state_m["consumer"] = started
    /\ c_pc = "top" /\ c_s = started

\* C15: a packet pushed into the pipe of an input pin while the consumer
\* was paused is offered to ready once the consumer has been resumed by
\* start() and has settled in started.
C15_PausedPushFound ==
    \A x \in Inpins :
        Resumed(x) ~> (x \notin missed \/ ~InpinPeek(x)
                          \/ request["consumer"] # start_requested \/ crashed)

\* C16: a call of incoming() turns started into incoming and leaves every
\* other state of the node, and the other node's state, as it found them.
C16_IncomingOnlyFromStarted ==
    [][ (call'.notified = 1 /\ call.notified = 0)
            => /\ d_state_m["consumer"] = started
                      => d_state_m' = [d_state_m EXCEPT !["consumer"] = incoming]
               /\ d_state_m["consumer"] # started => d_state_m' = d_state_m ]_vars

\* incoming() found a pending pause request, which is still pending.
C16_Witness ==
    /\ call.returned /\ call.notified = 1
    /\ call.found = pause_requested
    /\ d_state_m["consumer"] = pause_requested

\* C17: on a pin without a pipe push returns false, queues nothing and
\* notifies no node, peek answers false and pop returns nothing; pop on an
\* empty pipe returns nothing too.  None of them changes a pipe, a pin's
\* pointer or a node's state.
C17_UnconnectedIsNeutral ==
    [][ /\ (OutpinPush /\ d_pipe_cr_sp[output(p_i)] = <<>>)
               => /\ call'.returned /\ ~call'.result
                  /\ ~call'.pushed /\ call'.notified = 0
                  /\ p_pc' # "notify"
                  /\ UNCHANGED <<d_state_m, d_pipe_cr_sp, pipes>>
        /\ (ConsumerPeek /\ d_pipe_cr_sp[input(c_i)] = <<>>)
               => /\ c_pc' # "ready"
                  /\ UNCHANGED <<d_state_m, d_pipe_cr_sp, pipes>>
        /\ \A x \in Inpins :
               (ConsumerReady(x) /\ (d_pipe_cr_sp[x] = <<>> \/ ~InpinPeek(x)))
                   => /\ c_popped' = <<>>
                      /\ UNCHANGED <<d_state_m, d_pipe_cr_sp, pipes>> ]_vars

\* ready popped from a pin without a pipe and got nothing, after a push
\* through a pin without a pipe had returned false.
C17_Witness ==
    /\ c_pc = "readied" /\ c_popped = <<>>
    /\ \E x \in ReadyPins(c_i) : d_pipe_cr_sp[x] = <<>>
    /\ call.returned /\ ~call.connected /\ ~call.result

\* C18: a pause() that finds the node running, with no other request after
\* it, leads to the node's state being paused, and a start() made while the
\* loop is under way to its being started.
C18_RequestIsApplied ==
    \A nd \in Nodes :
        /\ (request[nd] = pause_requested)
               ~> (d_state_m[nd] = paused \/ request[nd] # pause_requested \/ crashed)
        /\ (request[nd] = start_requested)
               ~> (d_state_m[nd] = started \/ request[nd] # start_requested \/ crashed)

\* C19: while a node's state is paused its thread is not in a callback nor
\* on its way into one: it has not begun, or it is at the top of the loop
\* with s paused, where it waits.
C19_PausedRunsNoCallback ==
    \A nd \in Nodes :
        d_state_m[nd] = paused
            => /\ Position(nd) \in {"entry", "top"}
               /\ Position(nd) = "top" => Local(nd) = paused

\* pause() stopped the producer between two rounds of produce_n.
C19_Witness ==
    /\ d_state_m["producer"] = paused
    /\ p_pc = "top" /\ p_s = paused
    /\ made > 0 /\ n > 0

\* The pipe of pin index i holds a packet.
NonEmpty(i) ==
    /\ d_pipe_cr_sp[input(i)] # <<>>
    /\ pipes[d_pipe_cr_sp[input(i)][1]].d_packets # <<>>

\* Where the scan goes after pin index i: the next pin, or the top of the loop.
Onward(i) ==
    IF i + 1 # ins THEN c_pc' = "peek" /\ c_i' = i + 1 ELSE c_pc' = "top"

\* C20: a scan starts only when the loop has read incoming, at pin 0; it
\* visits the pins in increasing index order, calls ready(i) exactly when
\* the pipe of pin i holds a packet at the visit and moves on otherwise;
\* ready is called from nowhere else, so within a scan ready(0) comes before
\* ready(1).
C20_ScanInOrder ==
    [][ /\ (c_pc' = "peek" /\ c_pc \notin {"peek", "readied"})
               => (c_pc = "settle" /\ c_s = incoming /\ c_i' = 0)
        /\ (c_pc = "settle" /\ c_s = incoming /\ c_pc' # "settle")
               => (c_pc' = "peek" /\ c_i' = 0)
        /\ (c_pc = "peek" /\ <<c_pc, c_i>>' # <<c_pc, c_i>>)
               => IF NonEmpty(c_i) THEN c_pc' = "ready" /\ c_i' = c_i ELSE Onward(c_i)
        /\ (c_pc' = "ready" /\ c_pc # "ready")
               => (c_pc = "peek" /\ NonEmpty(c_i) /\ c_i' = c_i)
        /\ (c_pc = "readied" /\ c_pc' # "readied") => Onward(c_i)
        /\ \A j, k \in 1..Len(scan') : j < k => scan'[j] < scan'[k] ]_vars

\* Within one scan ready(0) has been called, then ready(1).
C20_Witness == scan = <<0, 1>> /\ c_pc = "ready" /\ c_i = 1

\* The locks a step of the producer's thread takes where it now stands: the
\* state monitor's in the loop (lines 328-348), the pipe's in push (line
\* 225), the notified node's in incoming() (line 179).
ProducerTakes ==
    IF p_pc \in {"entry", "top", "settle"} THEN {StateLock("producer")}
    ELSE IF p_pc = "push" THEN PinTakes(output(p_i))
    ELSE IF p_pc = "notify" THEN {StateLock(NodeOf(inpin_p))}
    ELSE {}

\* The locks a step of the consumer's thread takes: the state monitor's in
\* the loop (lines 403-431), the pipe's in peek (line 159) and in the pop
\* ready makes on pin x (line 169).
ConsumerTakes(x) ==
    IF c_pc \in {"entry", "top", "settle"} THEN {StateLock("consumer")}
    ELSE IF c_pc = "peek" THEN PinTakes(input(c_i))
    ELSE IF c_pc = "ready" THEN PinTakes(x)
    ELSE {}

\* The locks connect(x, a) holds, one after the other: the accessor of a's
\* pipe in lines 86-90, then the accessor of x's pipe in lines 95-102.
ConnectTakes(x, a) ==
    LET sp1 == ConnectSteal(d_pipe_cr_sp, pipes, a)
    IN  <<PinTakes(a), IF sp1[x] = <<>> THEN {} ELSE {PipeLock(sp1[x][1])}>>

\* start(), pause(), stop(): lines 265, 273, 283.
NodeTakes(nd) == {StateLock(nd)}

\* A pipe's lock and a state monitor's lock together.
Mixed(L) == L \cap PipeLocks # {} /\ L \cap StateLocks # {}

PushedToRunning(k) ==
    /\ call.packet = k
    /\ call.pushed
    /\ call.notified = 1
    /\ call.found \in {started, incoming}

\* Packet k has been popped from a pipe.
Popped(k) == \E id \in PipeIds : k \in Range(popped[id])

\* C22: with a consumer that is never paused or stopped and whose ready(i)
\* pops from input(i), every packet pushed into one of its pipes while it
\* runs is eventually popped.
C22_PushedIsPopped ==
    \A k \in Packets : PushedToRunning(k) ~> Popped(k)

\* Output pin a is connected to input pin x: both hold the same pipe.
Connected(x, a) == d_pipe_cr_sp[a] # <<>> /\ d_pipe_cr_sp[a] = d_pipe_cr_sp[x]

\* A non-zero cap given to connect is below the length of the queue q.
Binding(q, max_length, max_weight) ==
    \E len \in {max_length, max_weight} : len # 0 /\ Len(q) > len

\* Queue r is what is left of queue q when packets leave it at one end.
Remains(r, q) ==
    /\ Len(r) <= Len(q)
    /\ \/ r = SubSeq(q, 1, Len(r))
       \/ r = SubSeq(q, Len(q) - Len(r) + 1, Len(q))

\* C23 as stated: connecting an output pin to the input pin it is already
\* connected to leaves both pins on the same single pipe, with every packet
\* that was queued still queued in the same order, whatever caps are given.
C23_ReconnectKeepsQueue ==
    [][ calls' # calls =>
        \A x \in Inpins, a \in Outpins, L \in {0, MaxCap}, W \in {0, MaxCap} :
          \A front \in Fronts(x, L, W) :
            (Connected(x, a) /\ Connect(x, a, L, W, front, FALSE))
                => LET id == d_pipe_cr_sp[x][1]
                   IN  /\ d_pipe_cr_sp'[a] = <<id>> /\ d_pipe_cr_sp'[x] = <<id>>
                       /\ pipes'[id].alive
                       /\ pipes'[id].d_packets = pipes[id].d_packets ]_vars

\* C23, amended: connecting an output pin to the input pin it is already
\* connected to leaves both pins on the same single pipe, which stays
\* alive; every packet that was queued is still queued in the same order
\* when no non-zero cap given is below the queue's length; otherwise the
\* packets over the cap leave the queue at one end and the rest keep their
\* order.
C23_ReconnectKeepsUncapped ==
    [][ calls' # calls =>
        \A x \in Inpins, a \in Outpins, L \in {0, MaxCap}, W \in {0, MaxCap} :
          \A front \in Fronts(x, L, W) :
            (Connected(x, a) /\ Connect(x, a, L, W, front, FALSE))
                => LET id == d_pipe_cr_sp[x][1]
                       q  == pipes[id].d_packets
                   IN  /\ d_pipe_cr_sp'[a] = <<id>> /\ d_pipe_cr_sp'[x] = <<id>>
                       /\ pipes'[id].alive
                       /\ Remains(pipes'[id].d_packets, q)
                       /\ ~Binding(q, L, W) => pipes'[id].d_packets = q
                       /\ Binding(q, L, W) => Len(pipes'[id].d_packets) < Len(q) ]_vars

\* A was connected to X by an unlimited pipe, pushed a packet into it, and
\* was connected to X again with a cap the queue is within: both pins hold
\* the same pipe, which now carries the cap and still queues the packet.
C23_Witness ==
    /\ d_pipe_cr_sp["A"] = <<1>> /\ d_pipe_cr_sp["X"] = <<1>>
    /\ call.pin = "A" /\ call.pushed /\ call.max_length = 0
    /\ pipes[1].d_max_length = MaxCap
    /\ call.packet \in Range(pipes[1].d_packets)
    /\ displaced = {}

====
